---- MODULE Spec2Model ----
(***************************************************************************)
(* Model of app/controllers/web/auth.js (koa-lad): the register, login,    *)
(* logout, forgot-password and reset-password handlers, the Users          *)
(* collection they read and write, the per-client session and the job      *)
(* queue.  Every handler is split at the awaits on the Users collection,    *)
(* so that requests of different clients interleave as they do on the      *)
(* event loop.                                                             *)
(***************************************************************************)
EXTENDS Integers, Sequences, FiniteSets, TLC

VARIABLES users, now, nextToken, pc, req, session, resp, jobs, warned, consumed

vars == <<users, now, nextToken, pc, req, session, resp, jobs, warned, consumed>>

(* ------------------------------ bounds --------------------------------- *)

\* how many times the clock advances
MaxTicks == 3
\* how many reset tokens randomstring.token() hands out
MaxTokens == 2

(* ----------------------------- constants ------------------------------- *)

\* moment().add(30, 'minutes')
ResetMinutes == 30
\* the clock advances in steps of half the token lifetime
TickMinutes == ResetMinutes \div 2

\* concurrent clients, each with its own session
Procs == {1, 2}
\* the client of the redirect flows
OneProc == {1}
\* Jobs.create succeeds in the flows that are not about its failure
Queued == {TRUE}

\* null of a numeric field (a Date or a token)
Null == 0 - 1

\* strings are sequences of one-character strings; undefined and null are
\* two values no string equals
Undefined == <<"undefined">>
NullStr == <<"null">>

Emails == {"a@x.com", "b@x.com"}
EmailInputs == Emails \cup {"not-an-email"}
\* the emails of the registrations that follow one another
AllEmails == Emails \cup {"c@x.com"}
\* the one email that registers in the reset flows; the other stays unknown
OneEmail == {"a@x.com"}
\* " " is blank; setPassword refuses "weak"
PasswordInputs == {"pw1", "pw2", "weak", " "}
\* the new passwords of the reset flows
ResetPasswords == {"pw2", "weak"}
\* 0 is a blank token parameter, k > 0 the k-th token randomstring produced
TokenInputs == 0..MaxTokens
\* the tokens that are not blank
Tokens == 1..MaxTokens
Locales == {<<"e", "n">>}

\* config.urls.web
web == <<"h", ":", "/", "/", "w">>
\* config.passportCallbackOptions.successReturnToOrRedirect
successReturnToOrRedirect == <<"/", "d">>

\* the values of ?return_to and ?redirect_to
QueryInputs ==
  { Undefined,
    <<>>,
    <<" ">>,
    <<"/", "d">>,
    <<"/", "/", "e">>,
    <<"h", ":", "/", "/", "w">>,
    <<"h", ":", "/", "/", "w", "/", "d">>,
    <<"h", ":", "/", "/", "w", "e">>,
    <<"e", ":", "/", "/", "w">>,
    <<"/", "h", ":", "/", "/", "w">>,
    <<"h", ":", "/", "/", "e">> }

(* ------------------------------ helpers -------------------------------- *)

Min(S) == CHOOSE x \in S : \A y \in S : x <= y

\* _.isString
isString(x) == x # Undefined /\ x # NullStr

\* s.isBlank: only whitespace, or empty
isBlank(str) == \A i \in 1..Len(str) : str[i] = " "

\* String.prototype.indexOf: the first position (from 0) of sub, or -1
indexOf(str, sub) ==
  LET at == { i \in 0..(Len(str) - Len(sub)) :
                SubSeq(str, i + 1, i + Len(sub)) = sub }
  IN  IF at = {} THEN 0 - 1 ELSE Min(at)

\* the truth value JavaScript gives a string, undefined or null
truthy(x) == isString(x) /\ x # <<>>

\* validator.isEmail
isEmail(e) == e \in AllEmails

\* s.isBlank on a password
isBlankPassword(pw) == pw = " "

\* the password validation of user.setPassword
setPasswordFails(pw) == pw = "weak"

\* `/${ctx.locale}${config.passportCallbackOptions.successReturnToOrRedirect}`
defaultRedirect(locale) == <<"/">> \o locale \o successReturnToOrRedirect

\* `/${ctx.locale}`
localeRoot(locale) == <<"/">> \o locale

NoReq ==
  [ email |-> "", password |-> "", token |-> 0, locale |-> <<>>, count |-> 0,
    found |-> FALSE, reset_token |-> Null, reset_token_expires_at |-> Null ]

\* the last response sent: the handler that sent it, the email and token of
\* the request it answers, and what it says
NoResp ==
  [ op |-> "", email |-> "", token |-> 0, status |-> "", message |-> "",
    redirectTo |-> Undefined ]

Response(op, email, token, status, message, redirectTo) ==
  [ op |-> op, email |-> email, token |-> token, status |-> status,
    message |-> message, redirectTo |-> redirectTo ]

\* ctx.throw(Boom.badRequest(message))
badRequest(op, email, token, message) ==
  Response(op, email, token, "badRequest", message, Undefined)

\* a response that is no error: ctx.body or ctx.redirect
ok(op, email, token, message, redirectTo) ==
  Response(op, email, token, "ok", message, redirectTo)

\* afterEnqueue when the failure of Jobs.create reaches the caller
afterEnqueueThrows(response, queued) ==
  IF queued
  THEN response
  ELSE badRequest(response.op, response.email, response.token, "JobError")

\* the response once Jobs.create has run inside its try/catch: the one the
\* handler had already decided, also when Jobs.create throws, because the
\* catch only logs the error
afterEnqueue(response, queued) == response

(* ---------------------------- the Users collection ---------------------- *)

\* Users.count({ group: 'admin' })
countAdmins(us) == Cardinality({ e \in DOMAIN us : us[e].group = "admin" })

\* resetQueryMatches without the test of the expiry
resetQueryIgnoresExpiry(us, email, token, date) ==
  /\ email \in DOMAIN us
  /\ us[email].reset_token = token

\* resetQueryMatches without the test of the token
resetQueryIgnoresToken(us, email, token, date) ==
  /\ email \in DOMAIN us
  /\ us[email].reset_token_expires_at # Null
  /\ us[email].reset_token_expires_at >= date

\* Users.findOne({ email, reset_token, reset_token_expires_at: { $gte: new Date() } })
resetQueryMatches(us, email, token, date) ==
  /\ email \in DOMAIN us
  /\ us[email].reset_token = token
  /\ us[email].reset_token_expires_at # Null
  /\ us[email].reset_token_expires_at >= date

\* the cool-down test of forgotPassword on the loaded document
resetLimited(doc, date) ==
  /\ doc.reset_token_expires_at # Null
  /\ doc.reset_token # Null
  /\ doc.reset_token_expires_at < date + ResetMinutes

\* groupFor that makes every new account an admin
groupForAnyCount(count) == "admin"

\* the group register gives the new account
groupFor(count) == IF count = 0 THEN "admin" ELSE "user"

\* clearedByReset that leaves the token in place
clearedByResetKeepsToken(u) == [ u EXCEPT !.reset_at = Null ]

\* the fields resetPassword sets on the loaded document before user.save()
clearedByReset(u) == [ u EXCEPT !.reset_token = Null, !.reset_at = Null ]

\* the fields forgotPassword sets on the loaded document before user.save()
issuedByForgot(u, date, token) ==
  [ u EXCEPT !.reset_token_expires_at = date + ResetMinutes, !.reset_token = token ]

\* the document Users.registerAsync creates
newUser(group, password) ==
  [ group |-> group, password |-> password, last_locale |-> <<>>,
    reset_token |-> Null, reset_token_expires_at |-> Null, reset_at |-> Null ]

\* the candidate registerOrLogin stores in ctx.session.returnTo
returnToCandidate(current, return_to, redirect_to) ==
  IF isString(return_to) /\ ~isBlank(return_to) THEN return_to
  ELSE IF isString(redirect_to) /\ ~isBlank(redirect_to) THEN redirect_to
  ELSE current

\* hijacking that looks for the trusted origin anywhere in the value
hijackingAnywhere(returnTo) ==
  /\ truthy(returnTo)
  /\ indexOf(returnTo, <<":", "/", "/">>) # 0 - 1
  /\ indexOf(returnTo, web) = 0 - 1

\* hijacking that lets every value through
hijackingNever(returnTo) == FALSE

\* the open-redirect test of registerOrLogin
hijacking(returnTo) ==
  /\ truthy(returnTo)
  /\ indexOf(returnTo, <<":", "/", "/">>) # 0 - 1
  /\ indexOf(returnTo, web) # 0

\* the pending redirect a successful login or register uses, else the default
redirectTarget(returnTo, locale) ==
  IF truthy(returnTo) THEN returnTo ELSE defaultRedirect(locale)

\* afterRedirect that leaves the pending redirect in the session
afterRedirectKeeps(returnTo) == returnTo

\* ctx.session.returnTo after login or register read it
afterRedirect(returnTo) == IF truthy(returnTo) THEN Undefined ELSE returnTo

\* passport's local strategy: the account of email when the password matches
authenticates(us, email, password) ==
  email \in DOMAIN us /\ us[email].password = password

\* the locale login answers in: the account's last locale when it has one
loginLocale(us, email, password, locale) ==
  IF /\ authenticates(us, email, password)
     /\ ~isBlank(us[email].last_locale)
     /\ us[email].last_locale # locale
  THEN us[email].last_locale
  ELSE locale

\* Job that loses the address
JobToNobody(template, to, token) == [ template |-> template, to |-> "", token |-> token ]

\* Jobs.create({ name: 'email', data: { template, to, ... } })
\* the reset-password job carries the link with the token
Job(template, to, token) == [ template |-> template, to |-> to, token |-> token ]

(* ------------------------------- Init ---------------------------------- *)

Init ==
  /\ users = <<>>
  /\ now = 0
  /\ nextToken = 1
  /\ pc = [ p \in Procs |-> "idle" ]
  /\ req = [ p \in Procs |-> NoReq ]
  /\ session = [ p \in Procs |-> [ user |-> "", returnTo |-> Undefined ] ]
  /\ resp = NoResp
  /\ jobs = <<>>
  /\ warned = Undefined
  /\ consumed = {}

\* the clock advances
Tick ==
  /\ now < MaxTicks * TickMinutes
  /\ now' = now + TickMinutes
  /\ UNCHANGED <<users, nextToken, pc, req, session, resp, jobs, warned, consumed>>

(* ------------------------------ register ------------------------------- *)

\* register up to `await Users.count({ group: 'admin' })`
RegisterCount(p, email, password, locale) ==
  /\ pc[p] = "idle"
  /\ IF ~isEmail(email)
     THEN /\ resp' = badRequest("register", email, 0, "INVALID_EMAIL")
          /\ UNCHANGED <<pc, req>>
     ELSE IF isBlankPassword(password)
     THEN /\ resp' = badRequest("register", email, 0, "INVALID_PASSWORD")
          /\ UNCHANGED <<pc, req>>
     ELSE /\ pc' = [ pc EXCEPT ![p] = "register" ]
          /\ req' = [ req EXCEPT ![p] =
                       [ NoReq EXCEPT !.email = email, !.password = password,
                                      !.locale = locale,
                                      !.count = countAdmins(users) ] ]
          /\ UNCHANGED resp
  /\ UNCHANGED <<users, now, nextToken, session, jobs, warned, consumed>>

\* register from `await Users.registerAsync(...)` to its end; queued tells
\* whether Jobs.create succeeds
RegisterCreate(p, queued) ==
  /\ pc[p] = "register"
  /\ pc' = [ pc EXCEPT ![p] = "idle" ]
  /\ req' = [ req EXCEPT ![p] = NoReq ]
  /\ IF req[p].email \in DOMAIN users
     THEN /\ resp' = badRequest("register", req[p].email, 0, "UserExistsError")
          /\ UNCHANGED <<users, session, jobs>>
     ELSE IF setPasswordFails(req[p].password)
     THEN /\ resp' = badRequest("register", req[p].email, 0, "PasswordError")
          /\ UNCHANGED <<users, session, jobs>>
     ELSE /\ users' = users @@
                       (req[p].email :> newUser(groupFor(req[p].count), req[p].password))
          /\ session' = [ session EXCEPT ![p] =
                           [ user |-> req[p].email,
                             returnTo |-> afterRedirect(session[p].returnTo) ] ]
          /\ resp' = afterEnqueue(
                        ok("register", req[p].email, 0, "REGISTERED",
                           redirectTarget(session[p].returnTo, req[p].locale)),
                        queued)
          /\ jobs' = IF queued
                     THEN Append(jobs, Job("welcome", req[p].email, Null))
                     ELSE jobs
  /\ UNCHANGED <<now, nextToken, warned, consumed>>

(* --------------------------- login and logout -------------------------- *)

\* login: passport.authenticate('local') and its callback
Login(p, email, password, locale) ==
  /\ pc[p] = "idle"
  /\ session' = [ session EXCEPT ![p] =
                   [ user |-> IF authenticates(users, email, password)
                              THEN email ELSE session[p].user,
                     returnTo |-> afterRedirect(session[p].returnTo) ] ]
  /\ resp' = IF authenticates(users, email, password)
             THEN ok("login", email, 0, "Welcome!",
                     redirectTarget(session[p].returnTo,
                                    loginLocale(users, email, password, locale)))
             ELSE badRequest("login", email, 0, "IncorrectCredentials")
  /\ UNCHANGED <<users, now, nextToken, pc, req, jobs, warned, consumed>>

\* logout
Logout(p, locale) ==
  /\ pc[p] = "idle"
  /\ session' = [ session EXCEPT ![p].user = "" ]
  /\ resp' = ok("logout", "", 0, "Logged out!", localeRoot(locale))
  /\ UNCHANGED <<users, now, nextToken, pc, req, jobs, warned, consumed>>

\* registerOrLogin
RegisterOrLogin(p, return_to, redirect_to) ==
  /\ pc[p] = "idle"
  /\ LET returnTo == returnToCandidate(session[p].returnTo, return_to, redirect_to)
     IN  IF hijacking(returnTo)
         THEN /\ warned' = returnTo
              /\ session' = [ session EXCEPT ![p].returnTo = NullStr ]
         ELSE /\ warned' = Undefined
              /\ session' = [ session EXCEPT ![p].returnTo = returnTo ]
  /\ resp' = ok("registerOrLogin", "", 0, "register-or-login", Undefined)
  /\ UNCHANGED <<users, now, nextToken, pc, req, jobs, consumed>>

(* ---------------------------- forgotPassword --------------------------- *)

\* ForgotPasswordLookup that sends the notification to an unknown email too
ForgotPasswordLookupNotifies(p, email) ==
  /\ pc[p] = "idle"
  /\ isEmail(email)
  /\ IF email \notin DOMAIN users
     THEN /\ Len(jobs) < MaxTokens
          /\ resp' = ok("forgotPassword", email, 0, "PASSWORD_RESET_SENT", Undefined)
          /\ jobs' = Append(jobs, Job("reset-password", email, Null))
          /\ UNCHANGED <<pc, req>>
     ELSE /\ pc' = [ pc EXCEPT ![p] = "forgotPassword" ]
          /\ req' = [ req EXCEPT ![p] =
                       [ NoReq EXCEPT
                           !.email = email, !.found = TRUE,
                           !.reset_token = users[email].reset_token,
                           !.reset_token_expires_at =
                              users[email].reset_token_expires_at ] ]
          /\ UNCHANGED <<resp, jobs>>
  /\ UNCHANGED <<users, now, nextToken, session, warned, consumed>>

\* forgotPassword up to `await Users.findOne({ email })`; an unknown email
\* is answered at once
ForgotPasswordLookup(p, email) ==
  /\ pc[p] = "idle"
  /\ IF ~isEmail(email)
     THEN /\ resp' = badRequest("forgotPassword", email, 0, "INVALID_EMAIL")
          /\ UNCHANGED <<pc, req>>
     ELSE IF email \notin DOMAIN users
     THEN /\ resp' = ok("forgotPassword", email, 0, "PASSWORD_RESET_SENT", Undefined)
          /\ UNCHANGED <<pc, req>>
     ELSE /\ pc' = [ pc EXCEPT ![p] = "forgotPassword" ]
          /\ req' = [ req EXCEPT ![p] =
                       [ NoReq EXCEPT
                           !.email = email, !.found = TRUE,
                           !.reset_token = users[email].reset_token,
                           !.reset_token_expires_at =
                              users[email].reset_token_expires_at ] ]
          /\ UNCHANGED resp
  /\ UNCHANGED <<users, now, nextToken, session, jobs, warned, consumed>>

\* forgotPassword from the cool-down test to its end; queued tells whether
\* Jobs.create succeeds
ForgotPasswordSave(p, queued) ==
  /\ pc[p] = "forgotPassword"
  /\ IF resetLimited(req[p], now)
     THEN /\ resp' = badRequest("forgotPassword", req[p].email, 0, "PASSWORD_RESET_LIMIT")
          /\ UNCHANGED <<users, nextToken, jobs>>
     ELSE /\ nextToken <= MaxTokens
          /\ users' = [ users EXCEPT ![req[p].email] = issuedByForgot(@, now, nextToken) ]
          /\ nextToken' = nextToken + 1
          /\ resp' = afterEnqueue(
                        ok("forgotPassword", req[p].email, 0, "PASSWORD_RESET_SENT",
                           Undefined),
                        queued)
          /\ jobs' = IF queued
                     THEN Append(jobs, Job("reset-password", req[p].email, nextToken))
                     ELSE jobs
  /\ pc' = [ pc EXCEPT ![p] = "idle" ]
  /\ req' = [ req EXCEPT ![p] = NoReq ]
  /\ UNCHANGED <<now, session, warned, consumed>>

(* ----------------------------- resetPassword --------------------------- *)

\* resetPassword up to `await Users.findOne({ email, reset_token, ... })`;
\* no matching account is answered at once
ResetPasswordLookup(p, email, password, token, locale) ==
  /\ pc[p] = "idle"
  /\ IF ~isEmail(email)
     THEN /\ resp' = badRequest("resetPassword", email, token, "INVALID_EMAIL")
          /\ UNCHANGED <<pc, req>>
     ELSE IF isBlankPassword(password)
     THEN /\ resp' = badRequest("resetPassword", email, token, "INVALID_PASSWORD")
          /\ UNCHANGED <<pc, req>>
     ELSE IF token = 0
     THEN /\ resp' = badRequest("resetPassword", email, token, "INVALID_RESET_TOKEN")
          /\ UNCHANGED <<pc, req>>
     ELSE IF ~resetQueryMatches(users, email, token, now)
     THEN /\ resp' = badRequest("resetPassword", email, token, "INVALID_RESET_PASSWORD")
          /\ UNCHANGED <<pc, req>>
     ELSE /\ pc' = [ pc EXCEPT ![p] = "resetPassword" ]
          /\ req' = [ req EXCEPT ![p] =
                       [ NoReq EXCEPT
                           !.email = email, !.password = password, !.token = token,
                           !.locale = locale, !.found = TRUE,
                           !.reset_token = users[email].reset_token,
                           !.reset_token_expires_at =
                              users[email].reset_token_expires_at ] ]
          /\ UNCHANGED resp
  /\ UNCHANGED <<users, now, nextToken, session, jobs, warned, consumed>>

\* resetPassword from clearing the token to its end
ResetPasswordSave(p) ==
  /\ pc[p] = "resetPassword"
  /\ IF setPasswordFails(req[p].password)
     THEN /\ users' = [ users EXCEPT ![req[p].email] = clearedByReset(@) ]
          /\ resp' = badRequest("resetPassword", req[p].email, req[p].token, "INVALID_PASSWORD_STRENGTH")
          /\ UNCHANGED consumed
     ELSE /\ users' = [ users EXCEPT ![req[p].email] =
                          [ clearedByReset(@) EXCEPT !.password = req[p].password ] ]
          /\ resp' = ok("resetPassword", req[p].email, req[p].token, "RESET_PASSWORD", localeRoot(req[p].locale))
          /\ consumed' = consumed \cup { <<req[p].email, req[p].token>> }
  /\ session' = [ session EXCEPT ![p].user = req[p].email ]
  /\ pc' = [ pc EXCEPT ![p] = "idle" ]
  /\ req' = [ req EXCEPT ![p] = NoReq ]
  /\ UNCHANGED <<now, nextToken, jobs, warned>>

(* ---------------------------- specifications --------------------------- *)

\* concurrent registrations of two clients
NextRegister ==
  \/ \E p \in Procs, email \in EmailInputs, password \in PasswordInputs,
        locale \in Locales : RegisterCount(p, email, password, locale)
  \/ \E p \in Procs, queued \in BOOLEAN : RegisterCreate(p, queued)
  \/ \E p \in Procs, email \in Emails, password \in {"pw1"}, locale \in Locales :
        Login(p, email, password, locale)
  \/ \E p \in Procs, locale \in Locales : Logout(p, locale)

SpecRegister == Init /\ [][NextRegister]_vars

\* the handlers that read and write the reset token, for two concurrent
\* clients on one account, with well-formed emails, passwords and tokens and
\* the clock in between; client 1 also registers the account
NextReset ==
  \/ Tick
  \/ \E p \in OneProc, email \in OneEmail, locale \in Locales :
        RegisterCount(p, email, "pw1", locale)
  \/ \E p \in OneProc, queued \in Queued : RegisterCreate(p, queued)
  \/ \E p \in Procs, email \in Emails : ForgotPasswordLookup(p, email)
  \/ \E p \in Procs, queued \in Queued : ForgotPasswordSave(p, queued)
  \/ \E p \in Procs, email \in Emails, password \in ResetPasswords,
        token \in Tokens, locale \in Locales :
        ResetPasswordLookup(p, email, password, token, locale)
  \/ \E p \in Procs : ResetPasswordSave(p)

Spec == Init /\ [][NextReset]_vars

\* one client's redirect flows: registerOrLogin, then register, login, logout
NextRedirect ==
  \/ \E p \in OneProc, return_to \in QueryInputs, redirect_to \in QueryInputs :
        RegisterOrLogin(p, return_to, redirect_to)
  \/ \E p \in OneProc, email \in OneEmail, locale \in Locales :
        RegisterCount(p, email, "pw1", locale)
  \/ \E p \in OneProc, queued \in Queued : RegisterCreate(p, queued)
  \/ \E p \in OneProc, email \in OneEmail, password \in {"pw1", "pw2"},
        locale \in Locales : Login(p, email, password, locale)
  \/ \E p \in OneProc, locale \in Locales : Logout(p, locale)

SpecRedirect == Init /\ [][NextRedirect]_vars

\* register and forgotPassword when Jobs.create may fail: client 1 registers
\* the accounts, both clients ask for reset tokens
NextEnqueue ==
  \/ \E p \in OneProc, email \in Emails, password \in {"pw1", "weak"},
        locale \in Locales : RegisterCount(p, email, password, locale)
  \/ \E p \in OneProc, queued \in BOOLEAN : RegisterCreate(p, queued)
  \/ \E p \in Procs, email \in Emails : ForgotPasswordLookup(p, email)
  \/ \E p \in Procs, queued \in BOOLEAN : ForgotPasswordSave(p, queued)

SpecEnqueue == Init /\ [][NextEnqueue]_vars

\* register requests that do not overlap: a request starts only when no
\* other request is under way
NextSequential ==
  \/ \E p \in Procs, email \in AllEmails \cup {"not-an-email"},
        password \in PasswordInputs, locale \in Locales :
        /\ \A q \in Procs : pc[q] = "idle"
        /\ RegisterCount(p, email, password, locale)
  \/ \E p \in Procs, queued \in BOOLEAN : RegisterCreate(p, queued)

SpecSequential == Init /\ [][NextSequential]_vars

\* one client's session through every handler: the redirect flows and the
\* password reset
NextSession ==
  \/ NextRedirect
  \/ \E p \in OneProc, email \in OneEmail : ForgotPasswordLookup(p, email)
  \/ \E p \in OneProc, queued \in Queued : ForgotPasswordSave(p, queued)
  \/ \E p \in OneProc, email \in OneEmail, password \in ResetPasswords,
        token \in Tokens, locale \in Locales :
        ResetPasswordLookup(p, email, password, token, locale)
  \/ \E p \in OneProc : ResetPasswordSave(p)

SpecSession == Init /\ [][NextSession]_vars

(* -------------------------------- claims ------------------------------- *)

\* the vocabulary of the claims
Admins == { e \in DOMAIN users : users[e].group = "admin" }
AllIdle == \A p \in Procs : pc[p] = "idle"
Contains(str, sub) ==
  \E i \in 1..Len(str) : i + Len(sub) - 1 <= Len(str) /\ SubSeq(str, i, i + Len(sub) - 1) = sub
BeginsWith(str, pre) == Len(pre) <= Len(str) /\ SubSeq(str, 1, Len(pre)) = pre
Times == 0..(MaxTicks * TickMinutes)

\* C1: once concurrent registrations with distinct emails have all finished
\* on a population that had no admin, exactly one account is admin.
C1_ExactlyOneAdmin ==
  (AllIdle /\ Cardinality(DOMAIN users) >= 2) => Cardinality(Admins) = 1

\* C2: a resetPassword that carries an email and token with which a
\* resetPassword has already succeeded fails with INVALID_RESET_PASSWORD,
\* whatever happened in between.
C2_ConsumedTokenFails ==
  [][ \A p \in Procs, email \in Emails, password \in ResetPasswords,
         token \in Tokens, locale \in Locales :
        ( /\ <<email, token>> \in consumed
          /\ ResetPasswordLookup(p, email, password, token, locale) )
        => /\ resp'.message = "INVALID_RESET_PASSWORD"
           /\ resp'.status = "badRequest"
           /\ pc'[p] = "idle" ]_vars

\* a resetPassword with a consumed email and token was answered
\* INVALID_RESET_PASSWORD
C2_Witness ==
  /\ resp.op = "resetPassword"
  /\ resp.message = "INVALID_RESET_PASSWORD"
  /\ <<resp.email, resp.token>> \in consumed

\* C3: two resetPassword requests with the same email and token never both
\* pass validation.
C3_TokenConsumedOnce ==
  \A p, q \in Procs :
    ( /\ p # q
      /\ pc[p] = "resetPassword"
      /\ pc[q] = "resetPassword"
      /\ req[p].email = req[q].email )
    => req[p].token # req[q].token

\* C4: a forgotPassword for an account whose previous token was issued more
\* than 30 minutes ago is accepted: a new token and the expiry now + 30
\* minutes are stored and the prior token no longer validates.
C4_ReissueAfterCooldown ==
  [][ \A p \in Procs, queued \in BOOLEAN :
        ( /\ ForgotPasswordSave(p, queued)
          /\ users[req[p].email].reset_token_expires_at # Null
          /\ now > users[req[p].email].reset_token_expires_at )
        => /\ resp'.message = "PASSWORD_RESET_SENT"
           /\ users'[req[p].email].reset_token # Null
           /\ users'[req[p].email].reset_token # users[req[p].email].reset_token
           /\ users'[req[p].email].reset_token_expires_at = now + ResetMinutes
           /\ \A date \in Times :
                ~resetQueryMatches(users', req[p].email,
                                   users[req[p].email].reset_token, date) ]_vars

\* C5: a forgotPassword for an account whose stored token was issued less
\* than 30 minutes ago is rejected with PASSWORD_RESET_LIMIT, the remaining
\* wait is positive, and neither the account nor the job queue changes.
C5_RateLimitedInsideCooldown ==
  [][ \A p \in Procs, queued \in BOOLEAN :
        ( /\ ForgotPasswordSave(p, queued)
          /\ users[req[p].email].reset_token # Null
          /\ users[req[p].email].reset_token_expires_at # Null
          /\ now < users[req[p].email].reset_token_expires_at )
        => /\ resp'.message = "PASSWORD_RESET_LIMIT"
           /\ users[req[p].email].reset_token_expires_at - now > 0
           /\ users' = users
           /\ jobs' = jobs ]_vars

\* C6: a forgotPassword that overlaps another one for the same account is
\* not accepted when the other has issued a token, still inside its
\* cool-down, since this request looked the account up.
C6_NoConcurrentIssue ==
  [][ \A p \in Procs, queued \in BOOLEAN :
        ( /\ ForgotPasswordSave(p, queued)
          /\ users[req[p].email].reset_token # Null
          /\ users[req[p].email].reset_token # req[p].reset_token
          /\ now < users[req[p].email].reset_token_expires_at )
        => /\ resp'.message # "PASSWORD_RESET_SENT"
           /\ nextToken' = nextToken
           /\ jobs' = jobs ]_vars

\* C7: forgotPassword answers every valid email with PASSWORD_RESET_SENT,
\* whether it is unknown or known, unless the account it looked up has a
\* token still inside its cool-down (set, and its expiry not yet behind).
C7_SameResponseForEveryEmail ==
  [][ /\ \A p \in Procs, email \in Emails :
          ( ForgotPasswordLookup(p, email) /\ email \notin DOMAIN users )
          => ( resp'.message = "PASSWORD_RESET_SENT" /\ resp'.status = "ok" )
      /\ \A p \in Procs, queued \in BOOLEAN :
          ( /\ ForgotPasswordSave(p, queued)
            /\ ~ ( /\ req[p].reset_token # Null
                   /\ req[p].reset_token_expires_at # Null
                   /\ now <= req[p].reset_token_expires_at ) )
          => ( resp'.message = "PASSWORD_RESET_SENT" /\ resp'.status = "ok" ) ]_vars

C9_TokenAndExpiryTogether ==
  \A e \in DOMAIN users :
    (users[e].reset_token = Null) <=> (users[e].reset_token_expires_at = Null)

\* C10: registerOrLogin with a non-blank return_to (else a non-blank
\* redirect_to): when the value contains "://" and does not begin with
\* config.urls.web the pending redirect becomes null and the value is logged
\* in a warning; otherwise the pending redirect is the value unchanged and
\* nothing is logged.
C10_RedirectGuard ==
  [][ \A p \in OneProc, return_to \in QueryInputs, redirect_to \in QueryInputs :
        LET given(x) == x # Undefined /\ \E i \in 1..Len(x) : x[i] # " "
            candidate == IF given(return_to) THEN return_to ELSE redirect_to
        IN  ( /\ RegisterOrLogin(p, return_to, redirect_to)
              /\ given(candidate) )
            => IF Contains(candidate, <<":", "/", "/">>) /\ ~BeginsWith(candidate, web)
               THEN session'[p].returnTo = NullStr /\ warned' = candidate
               ELSE session'[p].returnTo = candidate /\ warned' = Undefined ]_vars

\* registerOrLogin has rejected an absolute URL of another origin
C10_Witness ==
  /\ resp.op = "registerOrLogin"
  /\ session[1].returnTo = NullStr
  /\ warned # Undefined
  /\ Contains(warned, <<":", "/", "/">>)
  /\ ~BeginsWith(warned, web)

\* email and token match an account at some instant of the clock
validAtSomeTime(us, email, token) ==
  \E date \in Times : resetQueryMatches(us, email, token, date)

\* C11: a resetPassword that passed validation and whose setPassword fails
\* still saves the cleared token, leaves the stored password as it was and
\* ends with the INVALID_PASSWORD_STRENGTH client error; its token then
\* matches no account at any instant, and no later step makes a token that
\* was handed out and matches no account match one again.
C11_WeakResetStillClears ==
  [][ /\ \A p \in Procs :
          ( /\ pc[p] = "resetPassword"
            /\ req[p].password = "weak"
            /\ ResetPasswordSave(p) )
          => /\ users'[req[p].email].reset_token = Null
             /\ users'[req[p].email].password = users[req[p].email].password
             /\ resp'.status = "badRequest"
             /\ resp'.message = "INVALID_PASSWORD_STRENGTH"
             /\ req[p].token < nextToken
             /\ ~validAtSomeTime(users', req[p].email, req[p].token)
      /\ users' # users
         => \A email \in Emails, token \in Tokens :
              ( /\ token < nextToken
                /\ ~validAtSomeTime(users, email, token) )
              => ~validAtSomeTime(users', email, token) ]_vars

\* a resetPassword has just ended with INVALID_PASSWORD_STRENGTH on a token
\* that had not expired: the account has no token and the password it
\* registered with
C11_Witness ==
  /\ resp.op = "resetPassword"
  /\ resp.message = "INVALID_PASSWORD_STRENGTH"
  /\ users[resp.email].reset_token = Null
  /\ users[resp.email].reset_token_expires_at >= now
  /\ users[resp.email].password = "pw1"

\* C12: a resetPassword whose email, token and unexpired expiry match an
\* account passes validation and, when it ends, has authenticated its session
\* as that account, whether setPassword succeeded or failed; a resetPassword
\* that does not pass validation ends at once and leaves every session as it
\* was.
C12_SessionAfterReset ==
  [][ /\ \A p \in Procs :
          ( /\ pc[p] = "resetPassword"
            /\ ResetPasswordSave(p) )
          => /\ pc'[p] = "idle"
             /\ req[p].email \in DOMAIN users'
             /\ session'[p].user = req[p].email
             /\ resp'.message = IF req[p].password = "weak"
                                THEN "INVALID_PASSWORD_STRENGTH"
                                ELSE "RESET_PASSWORD"
      /\ \A p \in Procs :
          pc[p] = "idle"
          => \A email \in Emails, password \in ResetPasswords,
                token \in Tokens, locale \in Locales :
               ResetPasswordLookup(p, email, password, token, locale)
               => /\ session' = session
                  /\ IF /\ email \in DOMAIN users
                        /\ users[email].reset_token = token
                        /\ users[email].reset_token_expires_at # Null
                        /\ users[email].reset_token_expires_at >= now
                     THEN pc'[p] = "resetPassword" /\ req'[p].email = email
                     ELSE pc'[p] = "idle" /\ resp'.status = "badRequest" ]_vars

\* client 2, who never registered or logged in, is authenticated as the
\* account by a resetPassword that ended with INVALID_PASSWORD_STRENGTH
C12_Witness ==
  /\ resp.op = "resetPassword"
  /\ resp.message = "INVALID_PASSWORD_STRENGTH"
  /\ session[2].user = resp.email
  /\ session[2].user \in DOMAIN users

\* what register's last step does apart from the job queue: the account with
\* its group, the session and the response
registerOutcome(p) ==
  LET email == req[p].email
  IN  IF email \notin DOMAIN users /\ req[p].password # "weak"
      THEN /\ DOMAIN users' = DOMAIN users \cup {email}
           /\ \A e \in DOMAIN users : users'[e] = users[e]
           /\ users'[email].group = (IF req[p].count = 0 THEN "admin" ELSE "user")
           /\ users'[email].password = req[p].password
           /\ session'[p].user = email
           /\ resp'.status = "ok"
           /\ resp'.message = "REGISTERED"
           /\ resp'.email = email
      ELSE /\ users' = users
           /\ session' = session
           /\ resp'.status = "badRequest"
           /\ jobs' = jobs

\* what forgotPassword's last step does apart from the job queue: the stored
\* token and expiry, the session and the response
forgotOutcome(p) ==
  LET email == req[p].email
  IN  IF resp'.message = "PASSWORD_RESET_LIMIT"
      THEN /\ users' = users
           /\ resp'.status = "badRequest"
           /\ jobs' = jobs
      ELSE /\ DOMAIN users' = DOMAIN users
           /\ \A e \in DOMAIN users \ {email} : users'[e] = users[e]
           /\ users'[email].reset_token = nextToken
           /\ users'[email].reset_token_expires_at = now + ResetMinutes
           /\ users'[email].group = users[email].group
           /\ users'[email].password = users[email].password
           /\ nextToken' = nextToken + 1
           /\ session' = session
           /\ resp'.status = "ok"
           /\ resp'.message = "PASSWORD_RESET_SENT"
           /\ resp'.email = email

\* C13: whether Jobs.create succeeds or fails, the last step of register and
\* of forgotPassword leaves the same account, group, session, reset token,
\* expiry and response, and the response of an accepted request is no error;
\* only the job queue differs.
C13_EnqueueFailureIsSilent ==
  [][ \A p \in Procs, queued \in BOOLEAN :
        /\ ( pc[p] = "register" /\ RegisterCreate(p, queued) )
           => /\ registerOutcome(p)
              /\ ~queued => jobs' = jobs
        /\ ( pc[p] = "forgotPassword" /\ ForgotPasswordSave(p, queued) )
           => /\ forgotOutcome(p)
              /\ ~queued => jobs' = jobs ]_vars

\* a register and a forgotPassword were both accepted while every
\* Jobs.create failed: the account exists, its client is authenticated, a
\* token is stored, the last response is PASSWORD_RESET_SENT and the job
\* queue is empty
C13_Witness ==
  /\ jobs = <<>>
  /\ resp.op = "forgotPassword"
  /\ resp.status = "ok"
  /\ resp.email \in DOMAIN users
  /\ users[resp.email].reset_token # Null
  /\ session[1].user \in DOMAIN users

\* C14: when register requests do not overlap, the first account created
\* gets group admin and every account created later gets group user, so
\* from the first account on exactly one account is admin.
C14_SequentialFirstAdmin ==
  [][ \A p \in Procs, queued \in BOOLEAN :
        ( /\ pc[p] = "register"
          /\ RegisterCreate(p, queued)
          /\ DOMAIN users' # DOMAIN users )
        => /\ users'[req[p].email].group =
                (IF DOMAIN users = {} THEN "admin" ELSE "user")
           /\ Cardinality({ e \in DOMAIN users' : users'[e].group = "admin" }) = 1 ]_vars

\* three registrations, one after the other, have created three accounts,
\* one of them admin
C14_Witness ==
  /\ AllIdle
  /\ Cardinality(DOMAIN users) = 3
  /\ Cardinality(Admins) = 1
  /\ resp.op = "register"
  /\ resp.status = "ok"
  /\ users[resp.email].group = "user"

\* C15: a forgotPassword for a valid email that matches no account is
\* answered PASSWORD_RESET_SENT as a success, at once; it puts no job in the
\* queue, hands out no token and leaves every account as it was.
C15_UnknownEmailForgot ==
  [][ \A p \in Procs, email \in Emails :
        ( /\ email \notin DOMAIN users
          /\ pc[p] = "idle"
          /\ ForgotPasswordLookup(p, email) )
        => /\ resp'.op = "forgotPassword"
           /\ resp'.email = email
           /\ resp'.status = "ok"
           /\ resp'.message = "PASSWORD_RESET_SENT"
           /\ pc'[p] = "idle"
           /\ jobs' = jobs
           /\ nextToken' = nextToken
           /\ users' = users ]_vars

\* a forgotPassword for an email with no account was answered
\* PASSWORD_RESET_SENT while another account holds a reset token, and the
\* queue holds no job for that email
C15_Witness ==
  /\ resp.op = "forgotPassword"
  /\ resp.message = "PASSWORD_RESET_SENT"
  /\ resp.email \notin DOMAIN users
  /\ \E e \in DOMAIN users : users[e].reset_token # Null
  /\ \A i \in 1..Len(jobs) : jobs[i].to # resp.email

\* C16: a resetPassword with well-formed inputs whose email has no account,
\* whose token is not the account's, or whose token has expired, ends at
\* once with the one INVALID_RESET_PASSWORD client error, the same in the
\* three cases, and changes no account and no session.
C16_OneErrorForEveryMismatch ==
  [][ \A p \in Procs :
        pc[p] = "idle"
        => \A email \in Emails, token \in Tokens :
             ( \/ email \notin DOMAIN users
               \/ users[email].reset_token # token
               \/ users[email].reset_token_expires_at < now )
             => \A password \in ResetPasswords, locale \in Locales :
                  ResetPasswordLookup(p, email, password, token, locale)
                  => /\ resp'.op = "resetPassword"
                     /\ resp'.status = "badRequest"
                     /\ resp'.message = "INVALID_RESET_PASSWORD"
                     /\ resp'.redirectTo = Undefined
                     /\ pc'[p] = "idle"
                     /\ users' = users
                     /\ session' = session ]_vars

\* a resetPassword with a token that is not the account's was answered
\* INVALID_RESET_PASSWORD while the account holds another token that has not
\* expired
C16_Witness ==
  /\ resp.op = "resetPassword"
  /\ resp.message = "INVALID_RESET_PASSWORD"
  /\ resp.email \in DOMAIN users
  /\ users[resp.email].reset_token # Null
  /\ users[resp.email].reset_token # resp.token
  /\ users[resp.email].reset_token_expires_at >= now

\* the welcome jobs in the queue that are addressed to email
welcomeTo(js, email) ==
  Cardinality({ i \in 1..Len(js) : js[i].template = "welcome" /\ js[i].to = email })

\* a register with an invalid email or a blank password ends at once with a
\* client error and creates no account, establishes no session and enqueues
\* nothing
rejectedRegisterDoesNothing ==
  \A p \in Procs, email \in EmailInputs, password \in PasswordInputs,
     locale \in Locales :
    ( /\ pc[p] = "idle"
      /\ email = "not-an-email" \/ password = " "
      /\ RegisterCount(p, email, password, locale) )
    => /\ resp'.op = "register"
       /\ resp'.status = "badRequest"
       /\ pc'[p] = "idle"
       /\ users' = users
       /\ session' = session
       /\ jobs' = jobs

\* C17 as stated: every successful register creates the account,
\* authenticates the session as the new account and leaves exactly one
\* welcome job addressed to the new email in the queue; a register rejected
\* for an invalid email or a blank password does nothing.
C17_RegisterEnqueuesOnce ==
  [][ /\ \A p \in Procs, queued \in BOOLEAN :
          ( /\ pc[p] = "register"
            /\ RegisterCreate(p, queued)
            /\ resp'.status = "ok" )
          => /\ req[p].email \notin DOMAIN users
             /\ req[p].email \in DOMAIN users'
             /\ session'[p].user = req[p].email
             /\ welcomeTo(jobs', req[p].email) = 1
      /\ rejectedRegisterDoesNothing ]_vars

\* C17 amended: every successful register creates the account and
\* authenticates the session as the new account; it leaves exactly one
\* welcome job addressed to the new email in the queue when Jobs.create
\* succeeds and none when Jobs.create fails; a register rejected for an
\* invalid email or a blank password does nothing.
C17_RegisterEnqueuesOnceUnlessFailed ==
  [][ /\ \A p \in Procs, queued \in BOOLEAN :
          ( /\ pc[p] = "register"
            /\ RegisterCreate(p, queued)
            /\ resp'.status = "ok" )
          => /\ req[p].email \notin DOMAIN users
             /\ req[p].email \in DOMAIN users'
             /\ session'[p].user = req[p].email
             /\ welcomeTo(jobs, req[p].email) = 0
             /\ welcomeTo(jobs', req[p].email) = (IF queued THEN 1 ELSE 0)
             /\ Len(jobs') = Len(jobs) + (IF queued THEN 1 ELSE 0)
      /\ rejectedRegisterDoesNothing ]_vars

\* a register has succeeded while Jobs.create failed: the account exists,
\* a client is authenticated as it, and no welcome job is addressed to it
C17_Witness ==
  /\ resp.op = "register"
  /\ resp.status = "ok"
  /\ resp.email \in DOMAIN users
  /\ \E p \in Procs : session[p].user = resp.email
  /\ welcomeTo(jobs, resp.email) = 0

\* a pending redirect is present in the session
pending(returnTo) == returnTo # Undefined /\ returnTo # NullStr /\ returnTo # <<>>

\* the redirect target of a successful login or register and what is left in
\* the session
usesPendingOnce(p, locale) ==
  /\ resp'.redirectTo = IF pending(session[p].returnTo)
                        THEN session[p].returnTo
                        ELSE <<"/">> \o locale \o <<"/", "d">>
  /\ ~pending(session'[p].returnTo)
  /\ pending(session[p].returnTo) => session'[p].returnTo = Undefined

\* C18: a successful login or register returns the session's pending
\* redirect when there is one and else the default destination under the
\* locale, and leaves no pending redirect in the session; a session without
\* pending redirect gets one only from registerOrLogin, so the next
\* successful login gets the default unless registerOrLogin set a new one.
C18_PendingRedirectUsedOnce ==
  [][ \A p \in OneProc :
        /\ \A email \in OneEmail, password \in {"pw1", "pw2"}, locale \in Locales :
             ( Login(p, email, password, locale) /\ resp'.status = "ok" )
             => usesPendingOnce(p, locale)
        /\ \A queued \in Queued :
             ( /\ pc[p] = "register"
               /\ RegisterCreate(p, queued)
               /\ resp'.status = "ok" )
             => usesPendingOnce(p, req[p].locale)
        /\ ( ~pending(session[p].returnTo) /\ pending(session'[p].returnTo) )
           => \E return_to \in QueryInputs, redirect_to \in QueryInputs :
                RegisterOrLogin(p, return_to, redirect_to) ]_vars

\* a successful login was redirected to the pending redirect /d, which is
\* not the default, and the session holds no pending redirect any more
C18_Witness ==
  /\ resp.op = "login"
  /\ resp.status = "ok"
  /\ resp.redirectTo = <<"/", "d">>
  /\ session[1].user = resp.email
  /\ session[1].returnTo = Undefined

\* C19: whatever registerOrLogin, login, register, forgotPassword,
\* resetPassword and logout requests a session has made, the redirect target
\* a successful login or register returns never contains "://" without
\* beginning with config.urls.web; it is the default under the locale or one
\* of the values given to registerOrLogin.
C19_NoOpenRedirect ==
  ( resp.op \in {"login", "register"} /\ resp.status = "ok" )
  => /\ ~ ( /\ Contains(resp.redirectTo, <<":", "/", "/">>)
            /\ ~BeginsWith(resp.redirectTo, web) )
     /\ \/ \E locale \in Locales :
             resp.redirectTo = <<"/">> \o locale \o <<"/", "d">>
        \/ resp.redirectTo \in QueryInputs \ {Undefined, <<>>, <<" ">>}

\* after a resetPassword in the session, a successful login was redirected
\* to an absolute URL of the trusted origin that registerOrLogin had stored
C19_Witness ==
  /\ resp.op = "login"
  /\ resp.status = "ok"
  /\ Contains(resp.redirectTo, <<":", "/", "/">>)
  /\ BeginsWith(resp.redirectTo, web)
  /\ consumed # {}

\* C20: a login that fails authentication leaves the session as it was: the
\* pending redirect stays and no user is authenticated by it.
C20_FailedLoginKeepsRedirect ==
  [][ \A p \in OneProc, email \in OneEmail, password \in {"pw1", "pw2"},
         locale \in Locales :
        ( Login(p, email, password, locale) /\ resp'.status = "badRequest" )
        => /\ session'[p].returnTo = session[p].returnTo
           /\ session'[p].user = session[p].user ]_vars

====
